---- MODULE Spec2Model ----
(***************************************************************************)
(* Model of the video step-extraction service: VideoProcessor              *)
(* (src/video_processor.py) and the upload endpoint (src/video.py).        *)
(* One request is followed from its entry to the value or error that its   *)
(* caller sees, together with the decoder handle and the files on disk.    *)
(***************************************************************************)
EXTENDS Integers, Sequences, FiniteSets, TLC

\* ------------------------------------------------------------------ bounds
\* Largest frame count the decoder reports in the model (besides ExampleFrames).
MaxFrameCount == 24

\* The 100-second 30 fps video of the end-to-end example.
ExampleFrames == 3000

\* Frame rates the decoder may report, as fractions <<numerator, denominator>>.
FrameRates == { <<0, 1>>, <<1, 8>>, <<1, 1>>, <<30, 1>> }

FrameCounts == (0 .. MaxFrameCount) \cup {ExampleFrames}

\* Guide identifiers a caller may supply.
GuideIds == {0, 7}

\* The absent optional form field (Python None).
None == -1

\* Uploaded file contents and file-name extensions.
Contents == {"a", "b"}
Extensions == {"mp4", "mkv", "txt"}

\* Seeds of the interpreter's per-process string hash.
HashSeeds == {1, 2}

\* Callback URLs of a request; "" is the absent field.
CallbackUrls == {"", "http://client/callback"}

\* Content types of a request to the stub application, and what its POST meets.
ContentTypes == {"multipart/form-data", "application/json", "text/plain"}
Deliveries == {"200", "500", "timeout"}

\* Largest ordinal and step count in direct calls of the step synthesizer.
MaxOrdinal == 8
MaxTotalSteps == 8

\* ------------------------------------------------------- program constants
\* src/config.py:20
ALLOWED_EXTENSIONS == {"mp4", "avi", "mov", "mkv"}

\* src/config.py:8 (the default of the DEBUG environment switch)
DEBUG == FALSE

\* src/video_processor.py:93 -- one step per 20 seconds, at least 3, at most 6
SecondsPerStep == 20
MinSteps == 3
MaxSteps == 6

\* src/video_processor.py:166 -- one mock step per 30 seconds
MockSecondsPerStep == 30

\* src/video_processor.py:122 -- duration assumed when the frame rate is 0
DefaultDuration == 60

\* src/video_processor.py:160 and :190 -- picsum ids of real and of mock steps
RealImageBase == 10
MockImageBase == 20

\* src/video.py:53
GuideIdModulus == 10000

Min(a, b) == IF a < b THEN a ELSE b
Max(a, b) == IF a > b THEN a ELSE b

\* ------------------------------------------------------------ template pools
\* src/video_processor.py:126-151
step_templates ==
  << [title |-> "Initial Setup and Preparation",
      description |-> "Begin by setting up your workspace and gathering all necessary materials. Ensure you have a clean, organized area to work in and all tools are easily accessible."],
     [title |-> "Primary Process Execution",
      description |-> "Start the main procedure following the demonstrated technique. Pay close attention to the specific movements and timing shown in the video."],
     [title |-> "Intermediate Steps and Adjustments",
      description |-> "Continue with the intermediate steps, making any necessary adjustments as you progress. Monitor your work carefully and compare with the reference."],
     [title |-> "Advanced Techniques Application",
      description |-> "Apply the more advanced techniques demonstrated in the video. Take your time with these steps as they often require precision and practice."],
     [title |-> "Final Assembly and Completion",
      description |-> "Complete the final assembly steps and perform quality checks. Ensure all components are properly secured and the result matches the expected outcome."],
     [title |-> "Quality Control and Finishing",
      description |-> "Perform final quality control checks and apply any finishing touches. Clean up your workspace and properly store any remaining materials."] >>

\* src/video_processor.py:168-175
step_titles ==
  << "Workspace Preparation", "Material Gathering", "Initial Setup",
     "Main Process", "Quality Checks", "Final Assembly" >>

\* src/video_processor.py:177-184
step_descriptions ==
  << "Set up your workspace with proper lighting and organization. Ensure all tools are clean and within reach.",
     "Gather all required materials and tools. Check that everything is in good condition and properly functioning.",
     "Begin the initial setup process following the demonstrated sequence. Take care with positioning and alignment.",
     "Execute the main procedure with attention to detail. Follow the timing and technique shown in the video.",
     "Perform quality control checks at each stage. Make adjustments as needed to ensure proper results.",
     "Complete the final assembly and finishing steps. Clean up and organize your completed work." >>

\* f"https://picsum.photos/id/{n}/800/400"
PicsumUrl(n) == << "https://picsum.photos/id/", n, "/800/400" >>

\* ------------------------------------------------------------ pure functions
\* int(x) of the non-negative quotient a / b (truncation).
IntQuot(a, b) == a \div b

\* NumSteps without the upper clamp.
NumStepsUncapped(fc, rate) ==
  Max(IntQuot(fc * rate[2], rate[1] * SecondsPerStep), MinSteps)

\* src/video_processor.py:93 -- fps = num/den > 0
\*   num_steps = min(max(int(frame_count / (fps * 20)), 3), 6)
NumSteps(fc, rate) ==
  Min(Max(IntQuot(fc * rate[2], rate[1] * SecondsPerStep), MinSteps), MaxSteps)

\* Interval rounded up instead of down.
IntervalRoundedUp(fc, n) == (fc + n - 1) \div n

\* src/video_processor.py:94 -- interval = frame_count // num_steps
Interval(fc, n) == fc \div n

\* Frame numbers counted from the end of each interval.
FrameNumberOneBased(k, iv) == (k + 1) * iv

\* src/video_processor.py:100 -- frame_number = i * interval
FrameNumber(k, iv) == k * iv

\* The template chosen by the position relative to the step count.
GenerateStepByTotal(step_index, total_steps, keyframe_path) ==
  LET template_index ==
        Min(Min(step_index, total_steps - 1), Len(step_templates) - 1)
      template == step_templates[template_index + 1]
  IN  [ title |-> template.title,
        description |-> template.description,
        image_url |-> PicsumUrl(RealImageBase + step_index),
        order |-> step_index + 1 ]

\* src/video_processor.py:153-162 -- step_index is 0-based
GenerateStepFromPosition(step_index, total_steps, keyframe_path) ==
  LET template_index == Min(step_index, Len(step_templates) - 1)
      template == step_templates[template_index + 1]
  IN  [ title |-> template.title,
        description |-> template.description,
        image_url |-> PicsumUrl(RealImageBase + step_index),
        order |-> step_index + 1 ]

\* src/video_processor.py:122 -- frame_count / fps if fps > 0 else 60,
\* as a fraction <<numerator, denominator>>
FallbackDuration(fc, rate) ==
  IF rate[1] > 0 THEN << fc * rate[2], rate[1] >> ELSE << DefaultDuration, 1 >>

\* MockNumSteps with the 20-second window of the real plan.
MockNumStepsWindow20(duration) ==
  Min(Max(IntQuot(duration[1], duration[2] * SecondsPerStep), MinSteps), MaxSteps)

\* src/video_processor.py:166 -- min(max(int(duration / 30), 3), 6)
MockNumSteps(duration) ==
  Min(Max(IntQuot(duration[1], duration[2] * MockSecondsPerStep), MinSteps), MaxSteps)

\* src/video_processor.py:186-194 -- element i (0-based) of the comprehension
MockStep(k) ==
  [ title |-> IF k < Len(step_titles) THEN step_titles[k + 1]
              ELSE << "Step ", k + 1 >>,
    description |-> IF k < Len(step_descriptions) THEN step_descriptions[k + 1]
                    ELSE << "Complete step ", k + 1 >>,
    image_url |-> PicsumUrl(MockImageBase + k),
    order |-> k + 1 ]

\* src/video_processor.py:164-194
GenerateMockSteps(duration) ==
  [ k \in 1 .. MockNumSteps(duration) |-> MockStep(k - 1) ]

\* hashlib.sha256(content).hexdigest(), src/video.py:48: one digest per content
Sha256Hex(content) == << "sha256", content >>

\* The built-in hash() of a str: salted per process, any sign.
StrHash(seed, digest) ==
  LET base == IF digest[2] = "a" THEN 123457 ELSE 0 - 98765
  IN  base * seed + (seed - 1) * 31

\* src/video.py:53
ActualGuideId(gid, seed, content) ==
  IF gid # None THEN gid ELSE StrHash(seed, Sha256Hex(content)) % GuideIdModulus

\* ------------------------------------------------------------------- state
VARIABLES
  pc,          \* Idle, Opening, Planning, Sampling, Assembled, Failed, Responded
  via,         \* "none", "direct" (process_video called), "upload" (endpoint)
  hashseed,    \* the process's string-hash seed
  source,      \* "path" or "url"
  guide_id,    \* the guide identifier handed to process_video
  content,     \* the uploaded content, "" when none
  cap,         \* decoder handle: none, opened, unopened, released
  fps,         \* reported frame rate <<num, den>>
  frame_count, \* reported frame count
  num_steps, interval, i,   \* locals of _extract_keyframes_and_generate_steps
  steps,       \* the list being assembled
  seeks,       \* <<i, frame_number>> of each cap.set(CAP_PROP_POS_FRAMES, .)
  rets,        \* the flag ret of each cap.read()
  mock,        \* TRUE once the except branch produced mock steps
  files,       \* files and directories on disk
  result,      \* what process_video returned
  error,       \* the exception process_video raised, "none" if none
  response,    \* the endpoint's HTTP response
  form,        \* the request's optional fields guide_id and callback_url
  posts,       \* the HTTP POSTs attempted to a callback URL, in order
  synth        \* a direct call of _generate_step_from_position and its value

vars == << pc, via, hashseed, source, guide_id, content, cap, fps, frame_count,
           num_steps, interval, i, steps, seeks, rets, mock, files, result,
           error, response, form, posts, synth >>

NoResult == [ pytype |-> "NoneType", items |-> << >> ]
PyList(xs) == [ pytype |-> "list", items |-> xs ]
NoResponse == [ status |-> 0, body |-> << >>, cached |-> "absent", detail |-> "" ]

TempDir == << "temp_dir" >>
DownloadFile == << "temp_dir", "video.mp4" >>
KeyframeFile(gid, k) == << "temp_dir", "keyframe", gid, k >>
UploadFile == << "uploads", "upload" >>

\* A request without the optional fields; "" is the absent callback_url.
NoForm == [ guide_id |-> None, callback_url |-> "" ]
NoCall == [ called |-> FALSE, step_index |-> 0, total_steps |-> 0,
            keyframe_path |-> << >>,
            out |-> [ title |-> "", description |-> "", image_url |-> << >>,
                      order |-> 0 ] ]

Init ==
  /\ pc = "Idle"
  /\ via = "none"
  /\ hashseed \in HashSeeds
  /\ source = "path"
  /\ guide_id = 0
  /\ content = ""
  /\ cap = "none"
  /\ fps = << 0, 1 >>
  /\ frame_count = 0
  /\ num_steps = 0
  /\ interval = 0
  /\ i = 0
  /\ steps = << >>
  /\ seeks = << >>
  /\ rets = << >>
  /\ mock = FALSE
  /\ files = {}
  /\ result = NoResult
  /\ error = "none"
  /\ response = NoResponse
  /\ form = NoForm
  /\ posts = << >>
  /\ synth = NoCall

\* ----------------------------------------------------------------- actions
\* VideoProcessor() followed by process_video(video_path, guide_id):
\* src/video_processor.py:15-17 creates the temp directory.
StartDirect(kind, gid) ==
  /\ pc = "Idle"
  /\ via' = "direct"
  /\ source' = kind
  /\ guide_id' = gid
  /\ files' = files \cup {TempDir}
  /\ pc' = "Opening"
  /\ UNCHANGED << hashseed, content, cap, fps, frame_count, num_steps, interval,
                  i, steps, seeks, rets, mock, result, error, response >>
  /\ UNCHANGED << form, posts, synth >>

\* src/video.py:27-61 -- upload_video up to the call of process_video
StartUpload(ext, gid, cb, data) ==
  /\ pc = "Idle"
  /\ via' = "upload"
  /\ form' = [ guide_id |-> gid, callback_url |-> cb ]
  /\ IF ext \notin ALLOWED_EXTENSIONS
     THEN /\ response' = [ NoResponse EXCEPT !.status = 400,
                                             !.detail = "Invalid file type" ]
          /\ pc' = "Responded"
          /\ UNCHANGED << source, guide_id, content, files >>
     ELSE /\ files' = files \cup {UploadFile, TempDir}
          /\ content' = data
          /\ guide_id' = ActualGuideId(gid, hashseed, data)
          /\ source' = "path"
          /\ pc' = "Opening"
          /\ UNCHANGED response
  /\ UNCHANGED << hashseed, cap, fps, frame_count, num_steps, interval, i, steps,
                  seeks, rets, mock, result, error, posts, synth >>

\* src/video_processor.py:51-69 -- _download_video raises
DownloadFails(midstream) ==
  /\ pc = "Opening"
  /\ source = "url"
  /\ files' = IF midstream THEN files \cup {DownloadFile} ELSE files
  /\ error' = "RequestException"
  /\ pc' = "Failed"
  /\ UNCHANGED << via, hashseed, source, guide_id, content, cap, fps, frame_count,
                  num_steps, interval, i, steps, seeks, rets, mock, result,
                  response >>
  /\ UNCHANGED << form, posts, synth >>

\* src/video_processor.py:25-32 -- the decoder cannot open the file
OpenFails ==
  /\ pc = "Opening"
  /\ files' = IF source = "url" THEN files \cup {DownloadFile} ELSE files
  /\ cap' = "unopened"
  /\ error' = "ValueError"
  /\ pc' = "Failed"
  /\ UNCHANGED << via, hashseed, source, guide_id, content, fps, frame_count,
                  num_steps, interval, i, steps, seeks, rets, mock, result,
                  response >>
  /\ UNCHANGED << form, posts, synth >>

\* src/video_processor.py:25-39 -- the decoder opens and reports its properties
OpenSucceeds(rate, fc) ==
  /\ pc = "Opening"
  /\ files' = IF source = "url" THEN files \cup {DownloadFile} ELSE files
  /\ cap' = "opened"
  /\ fps' = rate
  /\ frame_count' = fc
  /\ pc' = "Planning"
  /\ UNCHANGED << via, hashseed, source, guide_id, content, num_steps, interval,
                  i, steps, seeks, rets, mock, result, error, response >>
  /\ UNCHANGED << form, posts, synth >>

\* The except branch re-raising instead of falling back.
FallbackReraises ==
  /\ error' = "Exception"
  /\ pc' = "Failed"
  /\ UNCHANGED << steps, mock, cap, result >>

\* src/video_processor.py:99-100 -- the (i, frame_number) pairs of the loop
SamplePlan(n, iv) == [ k \in 1 .. n |-> << k - 1, FrameNumber(k - 1, iv) >> ]

\* src/video_processor.py:119-122 then :44-45 -- the except branch of
\* _extract_keyframes_and_generate_steps returns mock steps; process_video
\* releases the handle and returns them.
FallbackAndReturn ==
  LET mocked == GenerateMockSteps(FallbackDuration(frame_count, fps))
  IN  /\ steps' = mocked
      /\ mock' = TRUE
      /\ cap' = "released"
      /\ result' = PyList(mocked)
      /\ error' = error
      /\ pc' = "Assembled"

\* src/video_processor.py:91-97 -- fps * 20 = 0.0 makes the division raise
PlanSamples ==
  /\ pc = "Planning"
  /\ IF fps[1] = 0
     THEN /\ FallbackAndReturn
          /\ UNCHANGED << num_steps, interval, i >>
     ELSE /\ num_steps' = NumSteps(frame_count, fps)
          /\ interval' = Interval(frame_count, NumSteps(frame_count, fps))
          /\ i' = 0
          /\ steps' = << >>
          /\ pc' = "Sampling"
          /\ UNCHANGED << mock, cap, result, error >>
  /\ UNCHANGED << via, hashseed, source, guide_id, content, fps, frame_count,
                  seeks, rets, files, response >>
  /\ UNCHANGED << form, posts, synth >>

\* src/video_processor.py:99-115 -- one iteration of the loop; outcome is
\* "read_fail" (ret is False), "ok", or "encode_error" (_optimize_image raises)
SampleFrame(outcome) ==
  /\ pc = "Sampling"
  /\ i < num_steps
  /\ seeks' = Append(seeks, << i, FrameNumber(i, interval) >>)
  /\ rets' = Append(rets, outcome # "read_fail")
  /\ CASE outcome = "read_fail" ->
            /\ i' = i + 1
            /\ UNCHANGED << steps, files, mock, cap, result, error, pc >>
       [] outcome = "ok" ->
            /\ files' = files \cup {KeyframeFile(guide_id, i)}
            /\ steps' = Append(steps, GenerateStepFromPosition(i, num_steps, KeyframeFile(guide_id, i)))
            /\ i' = i + 1
            /\ UNCHANGED << mock, cap, result, error, pc >>
       [] outcome = "encode_error" ->
            /\ FallbackAndReturn
            /\ UNCHANGED << i, files >>
  /\ UNCHANGED << via, hashseed, source, guide_id, content, fps, frame_count,
                  num_steps, interval, response >>
  /\ UNCHANGED << form, posts, synth >>

\* src/video_processor.py:117 then :44-45 -- the loop is over
ReturnSteps ==
  /\ pc = "Sampling"
  /\ i = num_steps
  /\ cap' = "released"
  /\ result' = PyList(steps)
  /\ pc' = "Assembled"
  /\ UNCHANGED << via, hashseed, source, guide_id, content, fps, frame_count,
                  num_steps, interval, i, steps, seeks, rets, mock, files, error,
                  response >>
  /\ UNCHANGED << form, posts, synth >>

\* src/video.py:86-104 -- send_callback: the one requests.post, whose failure
\* or status is only logged (delivery is not known to the handler's caller)
CallbackPost(url, gid) == [ url |-> url, guide_id |-> gid, delivery |-> "unknown" ]

\* result["cached"] = False (src/video.py:64): only a dict takes a str key;
\* on a list it raises TypeError.
SetCachedRaises(res) == res.pytype # "dict"

\* src/video.py:62-84 -- upload_video after process_video returned or raised
UploadRespond ==
  /\ via = "upload"
  /\ pc \in {"Assembled", "Failed"}
  /\ IF pc = "Failed" \/ SetCachedRaises(result)
     THEN /\ response' = [ NoResponse EXCEPT
                             !.status = 500,
                             !.detail = IF pc = "Failed" THEN error ELSE "TypeError" ]
          /\ files' = files \ {UploadFile}
          /\ UNCHANGED posts
     ELSE /\ response' = [ NoResponse EXCEPT
                             !.status = 200, !.body = result.items, !.cached = "false" ]
          /\ posts' = IF form.callback_url # ""
                       THEN Append(posts, CallbackPost(form.callback_url, guide_id))
                       ELSE posts
          /\ files' = IF DEBUG THEN files ELSE files \ {UploadFile}
  /\ pc' = "Responded"
  /\ UNCHANGED << via, hashseed, source, guide_id, content, cap, fps, frame_count,
                  num_steps, interval, i, steps, seeks, rets, mock, result, error,
                  form, synth >>

\* src/api/main.py:111-118 -- the fixed response of the stub application
ApiSteps ==
  << [ index |-> 1, second |-> 5, title |-> "Frame 00:05",
       image_url |-> "https://picsum.photos/id/10/400/300" ],
     [ index |-> 2, second |-> 10, title |-> "Frame 00:10",
       image_url |-> "https://picsum.photos/id/11/400/300" ],
     [ index |-> 3, second |-> 15, title |-> "Frame 00:15",
       image_url |-> "https://picsum.photos/id/12/400/300" ] >>

\* src/api/main.py:72-108 -- the request passes the checks of its content type;
\* hasVideo is the uploaded file (form) or the video_url key (JSON).
ApiRequestAccepted(ctype, hasVideo, gid, cb) ==
  CASE ctype = "multipart/form-data" ->
         hasVideo /\ ~(gid = None \/ gid = 0 \/ cb = "")
    [] ctype = "application/json" ->
         hasVideo /\ gid # None /\ cb # ""
    [] OTHER -> FALSE

\* src/api/main.py:32-38 and 61-137 -- process_video of the stub application:
\* the whole handler, with send_callback's single POST; delivery is what the
\* POST met ("200", "500" or "timeout"), which only the log records.
ApiProcessVideo(authorized, ctype, hasVideo, gid, cb, delivery) ==
  /\ pc = "Idle"
  /\ via' = "api"
  /\ form' = [ guide_id |-> gid, callback_url |-> cb ]
  /\ IF ~authorized
     THEN /\ response' = [ NoResponse EXCEPT !.status = 401,
                                             !.detail = "Invalid API Key" ]
          /\ UNCHANGED posts
     ELSE IF ~ApiRequestAccepted(ctype, hasVideo, gid, cb)
     THEN /\ response' = [ NoResponse EXCEPT !.status = 422,
                                             !.detail = "required" ]
          /\ UNCHANGED posts
     ELSE /\ posts' = Append(posts, [ url |-> cb, guide_id |-> gid,
                                       delivery |-> delivery ])
          /\ response' = [ NoResponse EXCEPT !.status = 200, !.body = ApiSteps ]
  /\ pc' = "Responded"
  /\ UNCHANGED << hashseed, source, guide_id, content, cap, fps, frame_count,
                  num_steps, interval, i, steps, seeks, rets, mock, files, result,
                  error, synth >>

Next ==
  \/ \E kind \in {"path", "url"}, gid \in GuideIds : StartDirect(kind, gid)
  \/ \E ext \in Extensions, gid \in GuideIds \cup {None}, cb \in CallbackUrls,
        data \in Contents :
       StartUpload(ext, gid, cb, data)
  \/ \E authorized \in BOOLEAN, ctype \in ContentTypes, hasVideo \in BOOLEAN,
        gid \in GuideIds \cup {None}, cb \in CallbackUrls, delivery \in Deliveries :
       ApiProcessVideo(authorized, ctype, hasVideo, gid, cb, delivery)
  \/ \E midstream \in BOOLEAN : DownloadFails(midstream)
  \/ OpenFails
  \/ \E rate \in FrameRates, fc \in FrameCounts : OpenSucceeds(rate, fc)
  \/ PlanSamples
  \/ \E outcome \in {"read_fail", "ok", "encode_error"} : SampleFrame(outcome)
  \/ ReturnSteps
  \/ UploadRespond

Spec == Init /\ [][Next]_vars

\* src/video_processor.py:124-162 -- _generate_step_from_position called on
\* its own with any ordinal, step count and keyframe path
Synthesize(step_index, total_steps, keyframe_path) ==
  /\ ~synth.called
  /\ synth' = [ called |-> TRUE, step_index |-> step_index,
                total_steps |-> total_steps, keyframe_path |-> keyframe_path,
                out |-> GenerateStepFromPosition(step_index, total_steps,
                                                 keyframe_path) ]
  /\ UNCHANGED << pc, via, hashseed, source, guide_id, content, cap, fps,
                  frame_count, num_steps, interval, i, steps, seeks, rets, mock,
                  files, result, error, response, form, posts >>

SynthNext ==
  \E step_index \in 0 .. MaxOrdinal, total_steps \in 1 .. MaxTotalSteps,
     gid \in GuideIds :
    Synthesize(step_index, total_steps, KeyframeFile(gid, step_index))

SynthSpec == Init /\ [][SynthNext]_vars

\* ------------------------------------------------------------ properties
\* process_video returned a list / raised.
Returned == result.pytype = "list"
Raised == error # "none"
\* The decoder handle was opened successfully.
Opened == cap \in {"opened", "released"}

\* floor(a / b) for a >= 0, b > 0, by its defining inequality.
Floor(a, b) == CHOOSE q \in 0 .. a : q * b <= a /\ a < (q + 1) * b
Clamp3to6(x) == IF x < 3 THEN 3 ELSE IF x > 6 THEN 6 ELSE x

RealTitles == { step_templates[k].title : k \in DOMAIN step_templates }
MockTitles == { step_titles[k] : k \in DOMAIN step_titles }
IsPlaceholderUrl(u) ==
  /\ Len(u) = 3
  /\ u[1] = "https://picsum.photos/id/"
  /\ u[2] \in Nat
  /\ u[3] = "/800/400"

\* C1: once the source is open, a failed read of any planned frame makes the
\* run return 3 to 6 mock StepRecords, each with a placeholder image URL.
C1_ReadFailureYieldsMockSteps ==
  (Returned /\ \E k \in DOMAIN rets : ~rets[k]) =>
    /\ Len(result.items) \in 3 .. 6
    /\ \A k \in DOMAIN result.items :
         /\ result.items[k].title \in MockTitles
         /\ IsPlaceholderUrl(result.items[k].image_url)

\* C2: in every returned list the record at position k (0-based) has
\* order k + 1.
C2_OrderMatchesPosition ==
  Returned => \A k \in DOMAIN result.items : result.items[k].order = k

\* C3: a run that acquired a decoder handle has released it when it ends,
\* whether it returned or raised.
C3_HandleReleasedAtEnd ==
  ((Returned \/ Raised) /\ cap # "none") => cap = "released"

\* C4: when a run has ended, nothing it created under the temp directory
\* (the directory, a downloaded video, keyframe images) is left on disk.
C4_NoTempFilesLeft ==
  (Returned \/ Raised) => \A f \in files : f[1] # "temp_dir"

\* C5: with frame rate 0 the plan is computed without error: the except
\* branch does not run, num_steps is 3 and every frame sought is frame 0.
C5_ZeroRatePlansThreeAtZero ==
  (Opened /\ fps[1] = 0 /\ pc # "Planning") =>
    /\ ~mock
    /\ num_steps = 3
    /\ \A k \in DOMAIN seeks : seeks[k][2] = 0
    /\ Returned => Len(seeks) = 3

\* C6: for frame_count >= 1 and frame_rate > 0 the plan has 3 to 6 entries,
\* ordinals 0, 1, 2, ... strictly increasing and frame indices
\* non-decreasing; the frames sought are a prefix of that plan.
C6_PlanShape ==
  (Opened /\ fps[1] > 0 /\ frame_count >= 1 /\ pc # "Planning") =>
    LET plan == SamplePlan(num_steps, interval)
    IN  /\ Len(plan) \in 3 .. 6
        /\ plan[1][1] = 0
        /\ \A k \in 1 .. Len(plan) - 1 :
             /\ plan[k + 1][1] = plan[k][1] + 1
             /\ plan[k][2] <= plan[k + 1][2]
        /\ Len(seeks) <= Len(plan)
        /\ \A k \in DOMAIN seeks : seeks[k] = plan[k]

C6_Witness ==
  /\ Returned /\ ~mock /\ frame_count >= 1 /\ fps[1] > 0
  /\ Len(seeks) = 6
  /\ seeks[6][2] > seeks[5][2]

\* C7: for frame_count >= 0 and frame_rate > 0 the k-th frame sought is
\* k * (frame_count div num_steps), with
\* num_steps = max(3, min(6, floor(frame_count / (frame_rate * 20)))); a run
\* whose loop completes seeks all num_steps of them; 3000 frames at 30 fps
\* gives [0, 600, 1200, 1800, 2400].
C7_SeeksFollowFormula ==
  (Opened /\ fps[1] > 0 /\ frame_count >= 0 /\ pc # "Planning") =>
    LET n == Clamp3to6(Floor(frame_count * fps[2], fps[1] * 20))
    IN  /\ num_steps = n
        /\ \A k \in DOMAIN seeks :
             seeks[k] = << k - 1, (k - 1) * (frame_count \div n) >>
        /\ (Returned /\ ~mock) => Len(seeks) = n
        /\ (Returned /\ ~mock /\ frame_count = 3000 /\ fps = << 30, 1 >>) =>
             [ k \in DOMAIN seeks |-> seeks[k][2] ] = << 0, 600, 1200, 1800, 2400 >>

C7_Witness ==
  /\ Returned /\ ~mock
  /\ frame_count = 3000 /\ fps = << 30, 1 >>
  /\ Len(seeks) = 5 /\ seeks[5][2] = 2400

\* C8: process_video raises only when opening fails; once the source is
\* open no error is raised, the run can always take its next step, and it
\* ends by returning a list.
C8_FailedOnlyWhenOpeningFails ==
  /\ (pc = "Failed") => Raised
  /\ Raised => (~Opened /\ ~Returned /\ seeks = << >>)
  /\ Opened =>
       /\ ~Raised
       /\ pc \in {"Planning", "Sampling", "Assembled", "Responded"}
       /\ (pc \in {"Assembled", "Responded"}) => Returned
       /\ (pc = "Sampling") => i <= num_steps
       /\ (pc \in {"Planning", "Sampling"}) =>
            ENABLED (PlanSamples \/ ReturnSteps \/
                     \E outcome \in {"read_fail", "ok", "encode_error"} :
                        SampleFrame(outcome))

C8_Witness ==
  /\ pc = "Assembled" /\ Returned /\ ~Raised
  /\ mock /\ Len(seeks) > 0 /\ rets[Len(rets)]

\* C9: an upload with an allowed extension is answered with the core's step
\* list and cached = false whenever the core returned a list, and with an
\* error only when the core raised.
C9_UploadReturnsStepList ==
  (via = "upload" /\ pc = "Responded" /\ response.status # 400) =>
    IF Returned
    THEN /\ response.status = 200
         /\ response.body = result.items
         /\ response.cached = "false"
    ELSE response.status = 500 /\ Raised

\* C10: the mock generator never fails and returns exactly
\* max(3, min(6, floor(duration / 30))) records, orders 1..n in list order,
\* record k with the placeholder URL keyed by its ordinal and the k-th title
\* and description of the mock pool, which shares no title with the real pool.
C10_MockStepsFromDuration ==
  mock =>
    LET d == IF fps[1] > 0 THEN << frame_count * fps[2], fps[1] >> ELSE << 60, 1 >>
        n == Clamp3to6(Floor(d[1], d[2] * 30))
    IN  /\ Returned /\ ~Raised
        /\ result.items = steps
        /\ Len(steps) = n
        /\ \A k \in 1 .. n :
             /\ steps[k].order = k
             /\ steps[k].image_url = << "https://picsum.photos/id/", 20 + (k - 1), "/800/400" >>
             /\ steps[k].title = step_titles[k]
             /\ steps[k].description = step_descriptions[k]
             /\ steps[k].title \notin RealTitles

C10_Witness ==
  /\ mock /\ Returned
  /\ Len(steps) = 6
  /\ steps[6].title = "Final Assembly"

\* C11: the step synthesizer returns the title and description of template
\* min(ordinal_index, 5) of the pool of 6: the last template for every
\* ordinal_index >= 5, the template at that index below 5, whatever
\* total_steps and the keyframe are.
C11_TemplateByOrdinal ==
  synth.called =>
    LET k == IF synth.step_index < 5 THEN synth.step_index ELSE 5
    IN  /\ Len(step_templates) = 6
        /\ synth.out.title = step_templates[k + 1].title
        /\ synth.out.description = step_templates[k + 1].description
        /\ (synth.step_index >= 5) =>
             synth.out.title = "Quality Control and Finishing"
        /\ (synth.step_index = 0) =>
             synth.out.title = "Initial Setup and Preparation"

C11_Witness ==
  /\ synth.called
  /\ synth.step_index > 5
  /\ synth.total_steps < synth.step_index
  /\ synth.out.title = "Quality Control and Finishing"

\* C12: the guide identifier is the caller's value when one is given
\* (0 included); otherwise it lies in 0..9999 and is a function of the
\* uploaded content alone, the same in every server process.
C12_GuideIdFromContentAlone ==
  (via = "upload" /\ content # "") =>
    IF form.guide_id # None
    THEN guide_id = form.guide_id
    ELSE /\ guide_id \in 0 .. 9999
         /\ \A seed \in HashSeeds :
              guide_id = StrHash(seed, Sha256Hex(content)) % 10000

\* C13: a request with a callback URL whose processing succeeded has had
\* exactly one POST attempted to that URL when it is answered, and the answer
\* is the success response whatever the POST met.
C13_OneCallbackPost ==
  (pc = "Responded" /\ form.callback_url # ""
     /\ ((via = "upload" /\ Returned) \/ (via = "api" /\ response.status = 200))) =>
    /\ Len(posts) = 1
    /\ posts[1].url = form.callback_url
    /\ response.status = 200

\* C14: for frame_count >= 1 and frame_rate > 0 every frame sought lies in
\* 0 <= frame_index < frame_count; when frame_count < num_steps all are 0.
C14_SeeksWithinFrameCount ==
  (Opened /\ fps[1] > 0 /\ frame_count >= 1) =>
    \A k \in DOMAIN seeks :
      /\ 0 <= seeks[k][2]
      /\ seeks[k][2] < frame_count
      /\ (frame_count < num_steps) => seeks[k][2] = 0

C14_Witness ==
  /\ Returned /\ ~mock /\ fps[1] > 0
  /\ frame_count \in 1 .. 2
  /\ Len(seeks) = 3
  /\ seeks[3][2] = 0

====
